---- MODULE Spec2Model ----
(***************************************************************************)
(* Model of the Profiling-RTIC firmware.                                   *)
(*                                                                         *)
(*   Spec      the TaskSemaphore primitive (src/src/task_semaphore.rs)     *)
(*             driven by arbitrary pre-emptive clients: callers of         *)
(*             init(), one Signaler context, one Waiter context.           *)
(*   SpecQueue the EventQueue primitive, as the design specification       *)
(*             (sections 4.1 and 8) describes it, with one Signaler and    *)
(*             one Waiter context.                                         *)
(*   SpecSink  Spec, with the EventQueue signaler writing the same         *)
(*             watchdog sink as the TaskSemaphore signaler.                *)
(*   SpecApp   the firmware of src/src/main.rs: one profiling target per   *)
(*             build, its producer and consumer under the priority         *)
(*             scheduler, from the end of init to the final panic. The     *)
(*             clock's value is not observed there: delays are timer       *)
(*             events.                                                     *)
(***************************************************************************)
EXTENDS Integers, Sequences, FiniteSets, TLC

\* ------------------------------------------------------------------ bounds
NumCallers == 2
MaxSignals == 3
MaxWaits == 3
MaxNow == 2
QueueCapacity == 2
MaxQueueSignals == 4
MaxCycles == 2

\* ------------------------------------------------------- program constants
WCET_THRESHOLD == 100
HCLK_MHZ == 168
SIGNAL_READER_HCLK_MHZ == 0
DELAY_INTERVAL == 10
TICKS_PER_SEC == 1000

Callers == 1..NumCallers

VARIABLES
    INITIALIZED,      \* static INITIALIZED: AtomicBool
    TASK_SEMAPHORE,   \* static mut TASK_SEMAPHORE: MaybeUninit<Signal<()>>
    callerPc,         \* position of every caller of TaskSemaphore::init
    splits,           \* number of (writer, reader) pairs carved by split()
    touched,          \* callers that wrote or split the backing storage
    halted,           \* the panic handler was entered: the process is stopped
    watchdog,         \* the activation_watchdog Signal<Instant> slot
    now,              \* Mono::now(), in ticks
    csDepth,          \* nesting depth of critical_section::with
    sigPc,            \* position of the Signaler context inside signal()
    waitPc,           \* position of the Waiter context inside wait()
    nSignals,         \* signal() storage writes so far
    nResolved,        \* wait() calls resolved so far
    sigsSinceWait,    \* signal() storage writes since the last wait() resolved
    lastStamp,        \* Mono::now() as read by the most recent signal()
    nStamps,          \* watchdog writes so far
    waitSaw,          \* what the Waiter's last poll saw of a signal() in flight
    eqQueue,          \* EventQueue: the buffered <<ordinal, payload>> pairs, oldest first
    eqPolicy,         \* EventQueue: the configured overflow policy
    eqDropped,        \* EventQueue: the dropped-count
    eqSent,           \* EventQueue: signal(payload) calls so far
    eqPopped,         \* EventQueue: what the wait() calls returned, in order
    eqLog,            \* EventQueue: the payload of every signal(payload) call
    eqBurst,          \* EventQueue: no signal() came after a resolved wait()
    eqWaitPc,         \* EventQueue: position of the Waiter inside wait()
    target,           \* the profiling target selected by the build's feature
    prodPc,           \* position of the producer task
    consPc,           \* position of the consumer task (or interrupt handler)
    isrPending,       \* EXTI0 is pending in the NVIC
    isrUnmasked,      \* EXTI0 is unmasked in the NVIC
    next_time,        \* Local.next_time
    signalStore,      \* the store of make_signal!(()) (signal-rtic-sync)
    cyccnt,           \* DWT.CYCCNT, the free-running cycle counter
    cycles,           \* Local.<target>_cycles
    time_ns,          \* Local.<target>_time / time_ns / delay_until_overhead
    wc,               \* Local.wc_<target>
    hclk_mhz,         \* Local.<target>_hclk_mhz
    activation_count, \* Local.<target>_activation_count
    samples,          \* every converted sample folded into wc so far
    trialLog,         \* what the producer did so far in its current loop pass
    terminations      \* how often the final panic was raised

libVars == <<INITIALIZED, TASK_SEMAPHORE, callerPc, splits, touched, halted,
             watchdog, now, csDepth, sigPc, waitPc, nSignals, nResolved,
             sigsSinceWait, lastStamp, nStamps, waitSaw>>

eqVars == <<eqQueue, eqPolicy, eqDropped, eqSent, eqPopped, eqLog, eqBurst,
            eqWaitPc>>

appVars == <<target, prodPc, consPc, isrPending, isrUnmasked, next_time,
             signalStore, cyccnt, cycles, time_ns, wc, hclk_mhz,
             activation_count, samples, trialLog, terminations>>

vars == <<libVars, eqVars, appVars>>

\* ------------------------------------------------- rtic_sync::signal::Signal
\* Signal<T> keeps one optional value; for T = () the number of stored
\* values (0 = None, 1 = Some(())) is all there is to it.
EmptySlot == [full |-> FALSE, value |-> 0]

\* Signal::new(): an empty store.
SignalNew == [written |-> TRUE, store |-> 0]

Uninit == [written |-> FALSE, store |-> 0]

\* A write that leaves the store as it was.
SignalWriteLost(store) == store

\* A counting write: every write adds a pending notification.
SignalWriteCounting(store) == store + 1

\* SignalWriter::write(()): the store is replaced by Some(()).
SignalWrite(store) == 1

\* A reader that resolves without looking at the store.
StoreHasItemUnchecked(store) == TRUE

\* A wait() that never finds the store filled.
StoreHasItemNever(store) == FALSE

\* SignalReader::wait(): Ready only when the store holds a value.
StoreHasItem(store) == store >= 1

\* SignalReader::wait() takes the value: the store is None afterwards.
SignalTake(store) == 0

\* A sink that keeps its first value.
WatchdogWriteKeepFirst(slot, t) ==
    IF slot.full THEN slot ELSE [full |-> TRUE, value |-> t]

\* activation_watchdog.write(Mono::now()): the slot is overwritten.
WatchdogWrite(slot, t) == [full |-> TRUE, value |-> t]

\* ----------------------------------------------------- critical_section
\* A section that leaves pre-emption enabled.
CsEnterNoop(depth) == depth

\* A section that re-enables pre-emption on entry, at any nesting depth.
CsEnterDropped(depth) == 0

\* critical_section::with: pre-emption is disabled for the closure.
CsEnter(depth) == depth + 1

\* A section whose end leaves pre-emption disabled.
CsExitHeld(depth) == depth

\* The closure of critical_section::with returns: one level is released.
CsExit(depth) == IF depth > 0 THEN depth - 1 ELSE 0

\* A context other than the holder of the critical section runs only when
\* no critical section is held, and nothing runs once the process halted.
CanPreempt == ~halted /\ csDepth = 0

\* ------------------------------------------------------ TaskSemaphore::init
\* A guard that lets every caller through.
CasSucceedsAlways(flag) == TRUE

\* INITIALIZED.compare_exchange(false, true, ..).is_ok()
CasSucceeds(flag) == flag = FALSE

\* A guard that never records the initialization.
CasStoredKeep(flag) == flag

\* The value compare_exchange(false, true) leaves in the flag.
CasStored(flag) == IF flag = FALSE THEN TRUE ELSE flag

\* init(): the compare-and-swap; the loser panics (the panic handler stops
\* the process).
InitCas(c) ==
    /\ CanPreempt
    /\ callerPc[c] = "start"
    /\ IF CasSucceeds(INITIALIZED)
         THEN /\ callerPc' = [callerPc EXCEPT ![c] = "won"]
              /\ halted' = halted
         ELSE /\ callerPc' = [callerPc EXCEPT ![c] = "panicked"]
              /\ halted' = TRUE
    /\ INITIALIZED' = CasStored(INITIALIZED)
    /\ UNCHANGED <<TASK_SEMAPHORE, splits, touched, watchdog, now, csDepth,
                   sigPc, waitPc, nSignals, nResolved, sigsSinceWait,
                   lastStamp, nStamps, waitSaw>>
    /\ UNCHANGED <<eqVars, appVars>>

\* init(): TASK_SEMAPHORE.write(Signal::new())
InitWrite(c) ==
    /\ CanPreempt
    /\ callerPc[c] = "won"
    /\ callerPc' = [callerPc EXCEPT ![c] = "written"]
    /\ TASK_SEMAPHORE' = SignalNew
    /\ touched' = touched \cup {c}
    /\ UNCHANGED <<INITIALIZED, splits, halted, watchdog, now, csDepth,
                   sigPc, waitPc, nSignals, nResolved, sigsSinceWait,
                   lastStamp, nStamps, waitSaw>>
    /\ UNCHANGED <<eqVars, appVars>>

\* init(): .split(), and the handle pair is returned to the caller.
InitSplit(c) ==
    /\ CanPreempt
    /\ callerPc[c] = "written"
    /\ callerPc' = [callerPc EXCEPT ![c] = "returned"]
    /\ splits' = splits + 1
    /\ touched' = touched \cup {c}
    /\ UNCHANGED <<INITIALIZED, TASK_SEMAPHORE, halted, watchdog, now,
                   csDepth, sigPc, waitPc, nSignals, nResolved,
                   sigsSinceWait, lastStamp, nStamps, waitSaw>>
    /\ UNCHANGED <<eqVars, appVars>>

\* The handle pairs that were handed out.
Pairs == {c \in Callers : callerPc[c] = "returned"}

\* ------------------------------------------- TaskSemaphoreSignaler::signal
\* signal(): critical_section::with(|_cs| { ...
SignalEnter ==
    /\ CanPreempt
    /\ Pairs # {}
    /\ sigPc = "idle"
    /\ nSignals < MaxSignals
    /\ sigPc' = "entered"
    /\ csDepth' = CsEnter(csDepth)
    /\ UNCHANGED <<INITIALIZED, TASK_SEMAPHORE, callerPc, splits, touched,
                   halted, watchdog, now, waitPc, nSignals, nResolved,
                   sigsSinceWait, lastStamp, nStamps, waitSaw>>
    /\ UNCHANGED <<eqVars, appVars>>

\* signal(): self.inner.write(())
SignalStore ==
    /\ ~halted
    /\ sigPc = "entered"
    /\ sigPc' = "stored"
    /\ TASK_SEMAPHORE' =
         [TASK_SEMAPHORE EXCEPT !.store = SignalWrite(TASK_SEMAPHORE.store)]
    /\ nSignals' = nSignals + 1
    /\ sigsSinceWait' = sigsSinceWait + 1
    /\ UNCHANGED <<INITIALIZED, callerPc, splits, touched, halted, watchdog,
                   now, csDepth, waitPc, nResolved, lastStamp, nStamps, waitSaw>>
    /\ UNCHANGED <<eqVars, appVars>>

\* signal(): self.activation_watchdog.write(Mono::now())
SignalWatchdog ==
    /\ ~halted
    /\ sigPc = "stored"
    /\ sigPc' = "notified"
    /\ watchdog' = WatchdogWrite(watchdog, now)
    /\ lastStamp' = now
    /\ nStamps' = nStamps + 1
    /\ UNCHANGED <<INITIALIZED, TASK_SEMAPHORE, callerPc, splits, touched,
                   halted, now, csDepth, waitPc, nSignals, nResolved,
                   sigsSinceWait, waitSaw>>
    /\ UNCHANGED <<eqVars, appVars>>

\* signal(): ... }) the critical section ends.
SignalExit ==
    /\ ~halted
    /\ sigPc = "notified"
    /\ sigPc' = "idle"
    /\ csDepth' = CsExit(csDepth)
    /\ UNCHANGED <<INITIALIZED, TASK_SEMAPHORE, callerPc, splits, touched,
                   halted, watchdog, now, waitPc, nSignals, nResolved,
                   sigsSinceWait, lastStamp, nStamps, waitSaw>>
    /\ UNCHANGED <<eqVars, appVars>>

\* ----------------------------------------------- TaskSemaphoreWaiter::wait
\* wait(): one poll of self.inner.wait().await. With a value in the store
\* the value is taken and the call resolves; otherwise the task suspends.
\* A suspended Waiter is polled again when a write woke it.
WaitPoll ==
    /\ CanPreempt
    /\ Pairs # {}
    /\ nResolved < MaxWaits
    /\ waitSaw' = sigPc
    /\ IF StoreHasItem(TASK_SEMAPHORE.store)
         THEN /\ TASK_SEMAPHORE' =
                   [TASK_SEMAPHORE EXCEPT !.store = SignalTake(TASK_SEMAPHORE.store)]
              /\ waitPc' = "idle"
              /\ nResolved' = nResolved + 1
              /\ sigsSinceWait' = 0
         ELSE /\ waitPc = "idle"
              /\ waitPc' = "suspended"
              /\ UNCHANGED <<TASK_SEMAPHORE, nResolved, sigsSinceWait>>
    /\ UNCHANGED <<eqVars, appVars>>
    /\ UNCHANGED <<INITIALIZED, callerPc, splits, touched, halted, watchdog,
                   now, csDepth, sigPc, nSignals, lastStamp, nStamps>>
    /\ UNCHANGED <<eqVars, appVars>>

\* ------------------------------------------------------------- Mono::now
\* The monotonic clock advances by one tick.
Tick ==
    /\ ~halted
    /\ now < MaxNow
    /\ now' = now + 1
    /\ UNCHANGED <<INITIALIZED, TASK_SEMAPHORE, callerPc, splits, touched,
                   halted, watchdog, csDepth, sigPc, waitPc, nSignals,
                   nResolved, sigsSinceWait, lastStamp, nStamps, waitSaw>>
    /\ UNCHANGED <<eqVars, appVars>>

\* ------------------------------------------------------------ f32 values
\* A finite f32 is kept as the exact rational it stands for, scaled by the
\* session's clock frequency: Num(v) is v / hclk_mhz nanoseconds. Rounding
\* to f32 is monotone, so it changes no comparison below into its opposite.
Num(v) == [k |-> "num", v |-> v]

Inf == [k |-> "inf", v |-> 0]

NaN == [k |-> "nan", v |-> 0]

\* a <= b on f32 values (false when either is NaN).
FLe(a, b) ==
    /\ a.k # "nan"
    /\ b.k # "nan"
    /\ \/ b.k = "inf"
       \/ a.k = "num" /\ b.k = "num" /\ a.v <= b.v

\* An accumulator that keeps the latest sample.
FMaxLatest(a, b) == b

\* f32::max: the larger operand; a NaN operand is ignored.
FMax(a, b) ==
    IF a.k = "nan" THEN b
    ELSE IF b.k = "nan" THEN a
    ELSE IF FLe(a, b) THEN b ELSE a

\* (cycles as f32 / hclk_mhz) * 1000.0
ToNanos(c, hclk) ==
    IF hclk = 0 THEN (IF c = 0 THEN NaN ELSE Inf)
    ELSE Num(c * 1000)

\* An overhead that takes the interval off twice.
FSubIntervalTwice(a, interval, hclk) ==
    IF a.k = "num" THEN Num(a.v - 2 * interval * hclk) ELSE a

\* a - (interval as f32), for the delay-until overhead.
FSubInterval(a, interval, hclk) ==
    IF a.k = "num" THEN Num(a.v - interval * hclk) ELSE a

Targets == {"isr", "delay", "signal", "sem", "queue"}

\* The targets whose consumer is a task blocked in wait().
WaitTargets == {"signal", "sem", "queue"}

\* The clock frequency init() hands to the target's consumer.
InitHclk(t) == IF t = "signal" THEN SIGNAL_READER_HCLK_MHZ ELSE HCLK_MHZ

\* The converted sample of the target: the elapsed time, and for the
\* delay-until target the elapsed time less the nominal interval.
Sample(t, c, hclk) ==
    IF t = "delay" THEN FSubInterval(ToNanos(c, hclk), DELAY_INTERVAL, hclk)
    ELSE ToNanos(c, hclk)

\* A panic handler that returns to the panicking task.
PanicReturns == FALSE

\* #[panic_handler]: interrupt::disable(); ...; loop {} -- whether the
\* process is stopped once the handler is entered.
PanicHalts == TRUE

\* An increment that counts one trial twice.
CountStepTwice(count) == count + 2

\* *activation_count += 1
CountStep(count) == count + 1

\* A check made before the counter is incremented.
ThresholdReachedEarly(count) == count + 1 = WCET_THRESHOLD

\* if *activation_count == WCET_THRESHOLD
ThresholdReached(count) == count = WCET_THRESHOLD

AppIdle ==
    /\ target = "sem"
    /\ prodPc = "start"
    /\ consPc = "wait"
    /\ isrPending = FALSE
    /\ isrUnmasked = FALSE
    /\ next_time = EmptySlot
    /\ signalStore = 0
    /\ cyccnt = 0
    /\ cycles = 0
    /\ time_ns = Num(0)
    /\ wc = Num(0)
    /\ hclk_mhz = HCLK_MHZ
    /\ activation_count = 0
    /\ samples = {}
    /\ trialLog = <<>>
    /\ terminations = 0

EqInitIdle ==
    /\ eqQueue = <<>>
    /\ eqPolicy = "drop_newest"
    /\ eqDropped = 0
    /\ eqSent = 0
    /\ eqPopped = <<>>
    /\ eqLog = <<>>
    /\ eqBurst = TRUE
    /\ eqWaitPc = "idle"

LibInit ==
    /\ INITIALIZED = FALSE
    /\ TASK_SEMAPHORE = Uninit
    /\ callerPc = [c \in Callers |-> "start"]
    /\ splits = 0
    /\ touched = {}
    /\ halted = FALSE
    /\ watchdog = EmptySlot
    /\ now = 0
    /\ csDepth = 0
    /\ sigPc = "idle"
    /\ waitPc = "idle"
    /\ nSignals = 0
    /\ nResolved = 0
    /\ sigsSinceWait = 0
    /\ lastStamp = 0
    /\ nStamps = 0
    /\ waitSaw = "idle"

Init == LibInit /\ EqInitIdle /\ AppIdle

Next ==
    \/ \E c \in Callers : InitCas(c)
    \/ \E c \in Callers : InitWrite(c)
    \/ \E c \in Callers : InitSplit(c)
    \/ SignalEnter
    \/ SignalStore
    \/ SignalWatchdog
    \/ SignalExit
    \/ WaitPoll
    \/ Tick

Spec == Init /\ [][Next]_vars

\* ======================================================================
\* EventQueue: a bounded FIFO of payloads with an overflow policy
\* ======================================================================
Payloads == {"a", "b"}

Policies == {"drop_newest", "drop_oldest"}

\* A policy that overwrites the newest buffered payload when full.
QueuePushClobber(q, x, policy) ==
    IF Len(q) < QueueCapacity THEN Append(q, x)
    ELSE Append(SubSeq(q, 1, Len(q) - 1), x)

\* signal(payload): append; when the buffer is full the overflow policy
\* drops the new payload (drop-newest) or the oldest buffered one.
QueuePush(q, x, policy) ==
    IF Len(q) < QueueCapacity THEN Append(q, x)
    ELSE IF policy = "drop_newest" THEN q
    ELSE Append(Tail(q), x)

\* The dropped-count after a signal(payload) on buffer q.
QueueDropCount(q, dropped) ==
    IF Len(q) < QueueCapacity THEN dropped ELSE dropped + 1

\* A reader that takes the newest payload.
QueueFrontNewest(q) == q[Len(q)]

\* wait(): the oldest unconsumed payload.
QueueFront(q) == Head(q)

\* What is left in the buffer once its front was taken.
QueueRest(q) == Tail(q)

\* EventQueueSignaler::signal(payload): inside one critical section the
\* buffer is updated and the watchdog sink gets the current timestamp.
EqSignal(p) ==
    /\ CanPreempt
    /\ eqSent < MaxQueueSignals
    /\ eqQueue' = QueuePush(eqQueue, <<eqSent + 1, p>>, eqPolicy)
    /\ eqDropped' = QueueDropCount(eqQueue, eqDropped)
    /\ eqSent' = eqSent + 1
    /\ eqLog' = Append(eqLog, p)
    /\ eqBurst' = (eqBurst /\ eqPopped = <<>>)
    /\ watchdog' = WatchdogWrite(watchdog, now)
    /\ lastStamp' = now
    /\ nStamps' = nStamps + 1
    /\ UNCHANGED <<INITIALIZED, TASK_SEMAPHORE, callerPc, splits, touched,
                   halted, now, csDepth, sigPc, waitPc, nSignals, nResolved,
                   sigsSinceWait, waitSaw>>
    /\ UNCHANGED <<eqPolicy, eqPopped, eqWaitPc>>
    /\ UNCHANGED appVars

\* EventQueueWaiter::wait(): one poll. With a payload buffered the oldest
\* one is popped and returned; otherwise the task suspends until a
\* signal(payload) wakes it.
EqWait ==
    /\ CanPreempt
    /\ IF eqQueue # <<>>
         THEN /\ eqPopped' = Append(eqPopped, QueueFront(eqQueue))
              /\ eqQueue' = QueueRest(eqQueue)
              /\ eqWaitPc' = "idle"
         ELSE /\ eqWaitPc = "idle"
              /\ eqWaitPc' = "suspended"
              /\ UNCHANGED <<eqQueue, eqPopped>>
    /\ UNCHANGED libVars
    /\ UNCHANGED <<eqPolicy, eqDropped, eqSent, eqLog, eqBurst>>
    /\ UNCHANGED appVars

\* The overflow policy is configuration: either one may be selected.
EqInit ==
    /\ eqQueue = <<>>
    /\ eqPolicy \in Policies
    /\ eqDropped = 0
    /\ eqSent = 0
    /\ eqPopped = <<>>
    /\ eqLog = <<>>
    /\ eqBurst = TRUE
    /\ eqWaitPc = "idle"

QueueInit == LibInit /\ EqInit /\ AppIdle

QueueNext ==
    \/ \E p \in Payloads : EqSignal(p)
    \/ EqWait
    \/ Tick

SpecQueue == QueueInit /\ [][QueueNext]_vars

\* The watchdog sink shared as in init() of main.rs: the TaskSemaphore
\* signaler and the EventQueue signaler each hold a clone of its writer.
SinkNext ==
    \/ Next
    \/ \E p \in Payloads : EqSignal(p)

SpecSink == Init /\ [][SinkNext]_vars

\* ======================================================================
\* The firmware of main.rs: one profiling target, producer and consumer
\* ======================================================================
\* State the firmware's tasks never change.
libFrozen == <<INITIALIZED, callerPc, splits, touched, now, waitPc, nSignals,
               nResolved, sigsSinceWait, lastStamp, nStamps, waitSaw>>

eqFrozen == <<eqPolicy, eqSent, eqPopped, eqLog, eqBurst, eqWaitPc>>

\* The payload of event_queue_signaler.signal(()).
Unit == "unit"

\* The producer may take a step: the process is not halted and, in the
\* interrupt target, the EXTI0 handler (same priority as the task) is not in
\* the middle of its run. The producers of the wait() targets have the
\* higher priority and run whenever they are ready.
ProducerRuns ==
    /\ ~halted
    /\ (target = "isr" => consPc = "wait")

\* A consumer that runs whenever the process is not halted.
ConsumerRunsAnytime == ~halted

\* The consumer may take a step: the process is not halted, no critical
\* section is held, and the producer is not running (wait() targets: the
\* producer, of higher priority, sleeps in its delay; interrupt target: the
\* task of equal priority is suspended or not yet dispatched; delay-until
\* target: the one task has resumed from its delay).
ConsumerRuns ==
    /\ ~halted
    /\ csDepth = 0
    /\ IF target \in WaitTargets THEN prodPc = "sleep"
       ELSE IF target = "isr" THEN prodPc \in {"sleep", "start"}
       ELSE prodPc = "resumed"

\* rise_interrupt: unsafe { NVIC::unmask(interrupt::EXTI0) }
RiseUnmask ==
    /\ ProducerRuns
    /\ target = "isr"
    /\ prodPc = "boot"
    /\ prodPc' = "start"
    /\ isrUnmasked' = TRUE
    /\ UNCHANGED <<libFrozen, eqFrozen, halted, csDepth, sigPc, TASK_SEMAPHORE,
                   watchdog, eqQueue, eqDropped>>
    /\ UNCHANGED <<trialLog, target,
                   consPc, isrPending, next_time, signalStore, cyccnt,
                   cycles, time_ns, wc, hclk_mhz, activation_count, samples,
                   terminations>>

\* rise_interrupt: *next_time = Some(Mono::now() + 1.secs())
RiseNextTime ==
    /\ ProducerRuns
    /\ target = "isr"
    /\ prodPc = "start"
    /\ prodPc' = "enter"
    /\ next_time' = [full |-> TRUE, value |-> now + TICKS_PER_SEC]
    /\ UNCHANGED <<libFrozen, eqFrozen, halted, csDepth, sigPc, TASK_SEMAPHORE,
                   watchdog, eqQueue, eqDropped>>
    /\ UNCHANGED <<target, consPc, isrPending, isrUnmasked, signalStore,
                   cyccnt, cycles, time_ns, wc, hclk_mhz, activation_count,
                   samples, terminations>>
    /\ trialLog' = <<>>

\* The producer's critical_section::with(|_cs| { ...
ProdCsEnter ==
    /\ ProducerRuns
    /\ \/ target = "isr" /\ prodPc = "enter"
       \/ target \in WaitTargets /\ prodPc = "start"
    /\ prodPc' = "cs"
    /\ csDepth' = CsEnter(csDepth)
    /\ UNCHANGED <<libFrozen, eqFrozen, halted, sigPc, TASK_SEMAPHORE,
                   watchdog, eqQueue, eqDropped>>
    /\ UNCHANGED <<target, consPc, isrPending, isrUnmasked, next_time,
                   signalStore, cyccnt, cycles, time_ns, wc, hclk_mhz,
                   activation_count, samples, terminations>>
    /\ trialLog' = IF target \in WaitTargets THEN <<>> ELSE trialLog

\* rise_interrupt: NVIC::pend(interrupt::EXTI0)
RisePend ==
    /\ ProducerRuns
    /\ target = "isr"
    /\ prodPc = "cs"
    /\ prodPc' = "reset"
    /\ isrPending' = TRUE
    /\ UNCHANGED <<libFrozen, eqFrozen, halted, csDepth, sigPc, TASK_SEMAPHORE,
                   watchdog, eqQueue, eqDropped>>
    /\ UNCHANGED <<target, consPc, isrUnmasked, next_time, signalStore, cyccnt,
                   cycles, time_ns, wc, hclk_mhz, activation_count, samples,
                   terminations>>
    /\ trialLog' = Append(trialLog, "start")

\* signal_writer_task: cx.local.signal_writer.write(())
SignalWriterWrite ==
    /\ ProducerRuns
    /\ target = "signal"
    /\ prodPc = "cs"
    /\ prodPc' = "reset"
    /\ signalStore' = SignalWrite(signalStore)
    /\ UNCHANGED <<libFrozen, eqFrozen, halted, csDepth, sigPc, TASK_SEMAPHORE,
                   watchdog, eqQueue, eqDropped>>
    /\ UNCHANGED <<target, consPc, isrPending, isrUnmasked, next_time, cyccnt,
                   cycles, time_ns, wc, hclk_mhz, activation_count, samples,
                   terminations>>
    /\ trialLog' = Append(trialLog, "start")

\* task_seamaphore_signaler_task: signal() is entered; its own critical
\* section nests inside the task's.
SemSignalEnter ==
    /\ ProducerRuns
    /\ target = "sem"
    /\ prodPc = "cs"
    /\ sigPc = "idle"
    /\ sigPc' = "entered"
    /\ csDepth' = CsEnter(csDepth)
    /\ UNCHANGED <<libFrozen, eqFrozen, halted, TASK_SEMAPHORE, watchdog,
                   eqQueue, eqDropped>>
    /\ UNCHANGED <<target, prodPc, consPc, isrPending, isrUnmasked,
                   next_time, signalStore, cyccnt, cycles, time_ns, wc,
                   hclk_mhz, activation_count, samples, terminations>>
    /\ trialLog' = Append(trialLog, "start")

\* signal(): self.inner.write(())
SemSignalStore ==
    /\ ProducerRuns
    /\ target = "sem"
    /\ prodPc = "cs"
    /\ sigPc = "entered"
    /\ sigPc' = "stored"
    /\ TASK_SEMAPHORE' =
         [TASK_SEMAPHORE EXCEPT !.store = SignalWrite(TASK_SEMAPHORE.store)]
    /\ UNCHANGED <<libFrozen, eqFrozen, halted, csDepth, watchdog, eqQueue,
                   eqDropped, appVars>>

\* signal(): self.activation_watchdog.write(Mono::now())
SemSignalWatchdog ==
    /\ ProducerRuns
    /\ target = "sem"
    /\ prodPc = "cs"
    /\ sigPc = "stored"
    /\ sigPc' = "notified"
    /\ watchdog' = WatchdogWrite(watchdog, now)
    /\ UNCHANGED <<libFrozen, eqFrozen, halted, csDepth, TASK_SEMAPHORE,
                   eqQueue, eqDropped, appVars>>

\* signal() returns into the task's critical section.
SemSignalExit ==
    /\ ProducerRuns
    /\ target = "sem"
    /\ prodPc = "cs"
    /\ sigPc = "notified"
    /\ sigPc' = "idle"
    /\ csDepth' = CsExit(csDepth)
    /\ prodPc' = "reset"
    /\ UNCHANGED <<libFrozen, eqFrozen, halted, TASK_SEMAPHORE, watchdog,
                   eqQueue, eqDropped>>
    /\ UNCHANGED <<trialLog, target,
                   consPc, isrPending, isrUnmasked, next_time,
                   signalStore, cyccnt, cycles, time_ns, wc, hclk_mhz,
                   activation_count, samples, terminations>>

\* event_queue_signaler_task: cx.local.event_queue_signaler.signal(()).
\* The call never blocks: on a full buffer the overflow policy applies. The
\* dropped-count, which no task of main.rs reads, is followed under
\* SpecQueue and left alone here.
QueueSignalUnit ==
    /\ ProducerRuns
    /\ target = "queue"
    /\ prodPc = "cs"
    /\ prodPc' = "reset"
    /\ eqQueue' = QueuePush(eqQueue, <<0, Unit>>, eqPolicy)
    /\ watchdog' = WatchdogWrite(watchdog, now)
    /\ UNCHANGED <<libFrozen, eqFrozen, eqDropped, halted, csDepth, sigPc,
                   TASK_SEMAPHORE>>
    /\ UNCHANGED <<target, consPc, isrPending, isrUnmasked, next_time,
                   signalStore, cyccnt, cycles, time_ns, wc, hclk_mhz,
                   activation_count, samples, terminations>>
    /\ trialLog' = Append(trialLog, "start")

\* unsafe { dwt.cyccnt.write(0) }: inside the producer's critical section,
\* after the start event; in the delay-until target at the loop top, with
\* no critical section.
ProdReset ==
    /\ ProducerRuns
    /\ \/ target # "delay" /\ prodPc = "reset" /\ prodPc' = "exit"
       \/ target = "delay" /\ prodPc = "start" /\ prodPc' = "arm"
    /\ cyccnt' = 0
    /\ UNCHANGED <<libFrozen, eqFrozen, halted, csDepth, sigPc, TASK_SEMAPHORE,
                   watchdog, eqQueue, eqDropped>>
    /\ UNCHANGED <<target, consPc, isrPending, isrUnmasked, next_time,
                   signalStore, cycles, time_ns, wc, hclk_mhz, activation_count,
                   samples, terminations>>
    /\ trialLog' = Append(IF target = "delay" THEN <<>> ELSE trialLog, "reset")

\* ... }) the producer's critical section ends.
ProdCsExit ==
    /\ ProducerRuns
    /\ prodPc = "exit"
    /\ prodPc' = "arm"
    /\ csDepth' = CsExit(csDepth)
    /\ UNCHANGED <<libFrozen, eqFrozen, halted, sigPc, TASK_SEMAPHORE,
                   watchdog, eqQueue, eqDropped>>
    /\ UNCHANGED <<trialLog, target,
                   consPc, isrPending, isrUnmasked, next_time,
                   signalStore, cyccnt, cycles, time_ns, wc, hclk_mhz,
                   activation_count, samples, terminations>>

\* Mono::delay(..).await / Mono::delay_until(..).await: the task suspends.
ProdArm ==
    /\ ProducerRuns
    /\ prodPc = "arm"
    /\ prodPc' = "sleep"
    /\ UNCHANGED <<libFrozen, eqFrozen, halted, csDepth, sigPc, TASK_SEMAPHORE,
                   watchdog, eqQueue, eqDropped>>
    /\ UNCHANGED <<target, consPc, isrPending, isrUnmasked, next_time,
                   signalStore, cyccnt, cycles, time_ns, wc, hclk_mhz,
                   activation_count, samples, terminations>>
    /\ trialLog' = IF target = "delay" THEN Append(trialLog, "start") ELSE trialLog

\* The armed delay elapses: the monotonic's interrupt wakes the task. In the
\* delay-until target the task resumes at the capture.
TimerFire ==
    /\ ~halted
    /\ csDepth = 0
    /\ prodPc = "sleep"
    /\ IF target = "delay"
         THEN prodPc' = "resumed" /\ consPc' = "capture"
         ELSE prodPc' = "start" /\ consPc' = consPc
    /\ UNCHANGED <<libFrozen, eqFrozen, halted, csDepth, sigPc, TASK_SEMAPHORE,
                   watchdog, eqQueue, eqDropped>>
    /\ UNCHANGED <<trialLog, target,
                   isrPending, isrUnmasked, next_time, signalStore,
                   cyccnt, cycles, time_ns, wc, hclk_mhz, activation_count,
                   samples, terminations>>

\* The cycle counter counts on. Its value is observed only by the capture,
\* so the ticks since the last reset are taken when a capture is due: every
\* value a capture can read under free ticking it can read here.
CycleTick ==
    /\ ~halted
    /\ consPc = "capture"
    /\ cyccnt < MaxCycles
    /\ cyccnt' = cyccnt + 1
    /\ UNCHANGED <<libFrozen, eqFrozen, halted, csDepth, sigPc, TASK_SEMAPHORE,
                   watchdog, eqQueue, eqDropped>>
    /\ UNCHANGED <<trialLog, target,
                   prodPc, consPc, isrPending, isrUnmasked, next_time,
                   signalStore, cycles, time_ns, wc, hclk_mhz, activation_count,
                   samples, terminations>>

\* The end event of a trial: wait() resolves on a stored item and takes it
\* (signal, semaphore, event queue), or the pended and unmasked EXTI0 is
\* delivered and its handler entered (interrupt target).
ConsResolve ==
    /\ ConsumerRuns
    /\ consPc = "wait"
    /\ \/ /\ target = "signal"
          /\ StoreHasItem(signalStore)
          /\ signalStore' = SignalTake(signalStore)
          /\ UNCHANGED <<TASK_SEMAPHORE, eqQueue, isrPending>>
       \/ /\ target = "sem"
          /\ StoreHasItem(TASK_SEMAPHORE.store)
          /\ TASK_SEMAPHORE' =
               [TASK_SEMAPHORE EXCEPT !.store = SignalTake(TASK_SEMAPHORE.store)]
          /\ UNCHANGED <<signalStore, eqQueue, isrPending>>
       \/ /\ target = "queue"
          /\ eqQueue # <<>>
          /\ eqQueue' = QueueRest(eqQueue)
          /\ UNCHANGED <<signalStore, TASK_SEMAPHORE, isrPending>>
       \/ /\ target = "isr"
          /\ isrPending
          /\ isrUnmasked
          /\ isrPending' = FALSE
          /\ UNCHANGED <<signalStore, TASK_SEMAPHORE, eqQueue>>
    /\ consPc' = "capture"
    /\ UNCHANGED <<libFrozen, eqFrozen, halted, csDepth, sigPc, watchdog,
                   eqDropped>>
    /\ UNCHANGED <<trialLog, target,
                   prodPc, isrUnmasked, next_time, cyccnt, cycles,
                   time_ns, wc, hclk_mhz, activation_count, samples,
                   terminations>>

\* *cycles = dwt.cyccnt.read()
ConsCapture ==
    /\ ConsumerRuns
    /\ consPc = "capture"
    /\ consPc' = "convert"
    /\ cycles' = cyccnt
    /\ UNCHANGED <<libFrozen, eqFrozen, halted, csDepth, sigPc, TASK_SEMAPHORE,
                   watchdog, eqQueue, eqDropped>>
    /\ UNCHANGED <<trialLog, target,
                   prodPc, isrPending, isrUnmasked, next_time,
                   signalStore, cyccnt, time_ns, wc, hclk_mhz, activation_count,
                   samples, terminations>>

\* *time = (*cycles as f32 / *hclk_mhz) * 1000.0 (less the interval in the
\* delay-until target)
ConsConvert ==
    /\ ConsumerRuns
    /\ consPc = "convert"
    /\ consPc' = "accumulate"
    /\ time_ns' = Sample(target, cycles, hclk_mhz)
    /\ UNCHANGED <<libFrozen, eqFrozen, halted, csDepth, sigPc, TASK_SEMAPHORE,
                   watchdog, eqQueue, eqDropped>>
    /\ UNCHANGED <<trialLog, target,
                   prodPc, isrPending, isrUnmasked, next_time,
                   signalStore, cyccnt, cycles, wc, hclk_mhz, activation_count,
                   samples, terminations>>

\* *wc = (*wc).max(*time)
ConsAccumulate ==
    /\ ConsumerRuns
    /\ consPc = "accumulate"
    /\ consPc' = "count"
    /\ wc' = FMax(wc, time_ns)
    /\ samples' = samples \cup {time_ns}
    /\ UNCHANGED <<libFrozen, eqFrozen, halted, csDepth, sigPc, TASK_SEMAPHORE,
                   watchdog, eqQueue, eqDropped>>
    /\ UNCHANGED <<trialLog, target,
                   prodPc, isrPending, isrUnmasked, next_time,
                   signalStore, cyccnt, cycles, time_ns, hclk_mhz,
                   activation_count, terminations>>

\* *activation_count += 1
ConsCount ==
    /\ ConsumerRuns
    /\ consPc = "count"
    /\ consPc' = "check"
    /\ activation_count' = CountStep(activation_count)
    /\ UNCHANGED <<libFrozen, eqFrozen, halted, csDepth, sigPc, TASK_SEMAPHORE,
                   watchdog, eqQueue, eqDropped>>
    /\ UNCHANGED <<trialLog, target,
                   prodPc, isrPending, isrUnmasked, next_time,
                   signalStore, cyccnt, cycles, time_ns, wc, hclk_mhz, samples,
                   terminations>>

\* if *activation_count == WCET_THRESHOLD { ...; defmt::panic!(..) }: the
\* panic handler disables the interrupts and stops the process. Otherwise
\* the trial is over: the task loops (the handler returns).
ConsCheck ==
    /\ ConsumerRuns
    /\ consPc = "check"
    /\ IF ThresholdReached(activation_count)
         THEN /\ halted' = PanicHalts
              /\ consPc' = "terminated"
              /\ terminations' = terminations + 1
              /\ prodPc' = prodPc
         ELSE /\ halted' = halted
              /\ consPc' = "wait"
              /\ terminations' = terminations
              /\ prodPc' = IF target = "delay" THEN "start" ELSE prodPc
    /\ UNCHANGED <<libFrozen, eqFrozen, csDepth, sigPc, TASK_SEMAPHORE,
                   watchdog, eqQueue, eqDropped>>
    /\ UNCHANGED <<trialLog, target,
                   isrPending, isrUnmasked, next_time, signalStore,
                   cyccnt, cycles, time_ns, wc, hclk_mhz, activation_count,
                   samples>>

\* The state init() of main.rs leaves behind: TaskSemaphore::init() and
\* EventQueue::init() ran once, the signals are empty, every counter and
\* accumulator is zero, and the tasks of the selected target are spawned.
\* The event queue has its default overflow policy (its payloads are all
\* (), so either policy leaves the same buffer).
AppInit ==
    /\ INITIALIZED = TRUE
    /\ TASK_SEMAPHORE = SignalNew
    /\ callerPc = [c \in Callers |-> IF c = 1 THEN "returned" ELSE "start"]
    /\ splits = 1
    /\ touched = {1}
    /\ halted = FALSE
    /\ watchdog = EmptySlot
    /\ now = 0
    /\ csDepth = 0
    /\ sigPc = "idle"
    /\ waitPc = "idle"
    /\ nSignals = 0
    /\ nResolved = 0
    /\ sigsSinceWait = 0
    /\ lastStamp = 0
    /\ nStamps = 0
    /\ waitSaw = "idle"
    /\ target \in Targets
    /\ eqQueue = <<>>
    /\ eqPolicy = "drop_newest"
    /\ eqDropped = 0
    /\ eqSent = 0
    /\ eqPopped = <<>>
    /\ eqLog = <<>>
    /\ eqBurst = TRUE
    /\ eqWaitPc = "idle"
    /\ prodPc = IF target = "isr" THEN "boot" ELSE "start"
    /\ consPc = "wait"
    /\ isrPending = FALSE
    /\ isrUnmasked = FALSE
    /\ next_time = EmptySlot
    /\ signalStore = 0
    /\ cyccnt = 0
    /\ cycles = 0
    /\ time_ns = Num(0)
    /\ wc = Num(0)
    /\ hclk_mhz = InitHclk(target)
    /\ activation_count = 0
    /\ samples = {}
    /\ trialLog = <<>>
    /\ terminations = 0

AppNext ==
    \/ RiseUnmask
    \/ RiseNextTime
    \/ ProdCsEnter
    \/ RisePend
    \/ SignalWriterWrite
    \/ SemSignalEnter
    \/ SemSignalStore
    \/ SemSignalWatchdog
    \/ SemSignalExit
    \/ QueueSignalUnit
    \/ ProdReset
    \/ ProdCsExit
    \/ ProdArm
    \/ TimerFire
    \/ CycleTick
    \/ ConsResolve
    \/ ConsCapture
    \/ ConsConvert
    \/ ConsAccumulate
    \/ ConsCount
    \/ ConsCheck

SpecApp == AppInit /\ [][AppNext]_vars

\* ------------------------------------------------------------ scheduling
\* A step of the producer task of the target.
ProducerStep ==
    \/ RiseUnmask
    \/ RiseNextTime
    \/ ProdCsEnter
    \/ RisePend
    \/ SignalWriterWrite
    \/ SemSignalEnter
    \/ SemSignalStore
    \/ SemSignalWatchdog
    \/ SemSignalExit
    \/ QueueSignalUnit
    \/ ProdReset
    \/ ProdCsExit
    \/ ProdArm

\* A step of the consumer task or interrupt handler of the target.
ConsumerStep ==
    \/ ConsResolve
    \/ ConsCapture
    \/ ConsConvert
    \/ ConsAccumulate
    \/ ConsCount
    \/ ConsCheck

\* The processor is never idle while a task is ready, so a producer that
\* can run does run. Every armed delay elapses. The consumer gets the
\* processor each time the producer suspends in its delay, and a delay of
\* 1 s leaves it the time for its step: a consumer that is ready again
\* and again does run.
AppFairness ==
    /\ WF_vars(ProducerStep)
    /\ WF_vars(TimerFire)
    /\ SF_vars(ConsumerStep)

SpecAppFair == SpecApp /\ AppFairness

\* ======================================================================
\* Properties of the TaskSemaphore primitive (under Spec; C6 under SpecSink)
\* ======================================================================

\* The callers whose compare-and-swap succeeded.
Winners == {c \in Callers : callerPc[c] \in {"won", "written", "returned"}}

\* The callers that have executed the compare-and-swap.
Attempted == {c \in Callers : callerPc[c] # "start"}

\* C1: a call to init() after one has succeeded never returns a handle
\* pair, it ends in the fatal halt: at most one (Waiter, Signaler) pair is
\* ever handed out, the storage is split at most once, every caller that
\* failed has halted the process, and INITIALIZED, once true, stays true.
C1_SingleInit ==
    /\ [](/\ Cardinality(Pairs) <= 1
          /\ splits <= 1
          /\ (Pairs # {} => INITIALIZED)
          /\ \A c \in Callers : callerPc[c] = "panicked" => halted)
    /\ [][INITIALIZED => INITIALIZED']_vars

\* A first call returned its pair and a second call ended in the halt.
C1_Witness ==
    \E c, d \in Callers : callerPc[c] = "returned" /\ callerPc[d] = "panicked"

\* C2: among concurrent callers of init() exactly one wins the
\* compare-and-swap; only the winner writes or splits the backing storage
\* and only the winner holds a handle pair; every other caller that reached
\* the compare-and-swap failed with the DoubleInitialization panic.
C2_OneWinner ==
    /\ (Attempted # {} => Cardinality(Winners) = 1)
    /\ touched \subseteq Winners
    /\ Pairs \subseteq Winners
    /\ (TASK_SEMAPHORE.written => touched # {})
    /\ \A c \in Attempted \ Winners : callerPc[c] = "panicked" /\ halted

\* A second caller ran its compare-and-swap while the winner was still
\* between its own compare-and-swap and the construction.
C2_Witness ==
    \E c, d \in Callers : callerPc[c] = "won" /\ callerPc[d] = "panicked"

\* C3: after N >= 1 signal() calls with no wait() resolved in between,
\* exactly one notification is pending; a wait() resolves only on a pending
\* notification and clears it, and with none pending no wait() can resolve.
C3_CollapsingFlag ==
    /\ [](/\ (sigsSinceWait >= 1 => TASK_SEMAPHORE.store = 1)
          /\ (sigsSinceWait = 0 => TASK_SEMAPHORE.store = 0))
    /\ [][nResolved' # nResolved =>
            /\ sigsSinceWait >= 1
            /\ nResolved' = nResolved + 1
            /\ TASK_SEMAPHORE'.store = 0
            /\ sigsSinceWait' = 0]_vars

\* Two signal() calls collapsed into the one pending notification.
C3_Witness ==
    sigsSinceWait >= 2 /\ TASK_SEMAPHORE.store = 1 /\ sigPc = "idle"

\* C4: wait() resolves only on an unconsumed item and consumes exactly one:
\* the resolved wait() calls, together with what is still stored, never
\* exceed the signal() calls.
C4_WaitNeedsSignal ==
    /\ nResolved <= nSignals
    /\ nResolved + TASK_SEMAPHORE.store <= nSignals

\* Two wait() calls resolved, each on a signal() of its own.
C4_Witness ==
    nResolved = 2 /\ nSignals = 2 /\ TASK_SEMAPHORE.store = 0

\* C5: the storage write and the watchdog write of one signal() are an
\* atomic pair, storage first: between the two writes the critical section
\* is held, the Waiter never polls there, and whenever another context can
\* run every storage write has its watchdog write.
C5_AtomicPair ==
    /\ waitSaw # "stored"
    /\ (sigPc = "stored" => csDepth > 0)
    /\ nStamps <= nSignals
    /\ nSignals <= nStamps + 1
    /\ (csDepth = 0 => nSignals = nStamps)

\* A Waiter is suspended while a signal() is between its two writes.
C5_Witness ==
    sigPc = "stored" /\ waitPc = "suspended" /\ csDepth > 0

\* C6: the watchdog sink is one overwrite slot shared by the signalers:
\* empty before the first signal(), afterwards it holds the timestamp read
\* by the most recent signal() of either signaler; a step of the
\* semaphore's wait() never changes it.
C6_WatchdogLatest ==
    /\ [](/\ (nStamps = 0 => watchdog = EmptySlot)
          /\ (nStamps >= 1 => watchdog = [full |-> TRUE, value |-> lastStamp]))
    /\ [][(nResolved' # nResolved \/ waitPc' # waitPc) => watchdog' = watchdog]_vars

\* A signal() of the semaphore overwrote the timestamp an earlier signal()
\* of the event queue had left, and a wait() resolved since.
C6_Witness ==
    /\ eqSent >= 1
    /\ nSignals >= 1
    /\ nStamps = eqSent + nSignals
    /\ watchdog.full
    /\ watchdog.value >= 1
    /\ nResolved >= 1
    /\ sigPc = "idle"

\* ======================================================================
\* Properties of the EventQueue primitive (under SpecQueue)
\* ======================================================================

\* The ordinals (1 for the first signal(payload), 2 for the second, ...) of
\* a sequence of <<ordinal, payload>> pairs.
Ordinals(q) == [i \in 1..Len(q) |-> q[i][1]]

\* A sequence of ordinals that strictly increases.
Increasing(f) == \A i, j \in 1..Len(f) : i < j => f[i] < f[j]

\* The larger of two numbers.
Max(a, b) == IF a >= b THEN a ELSE b

\* The smaller of two numbers.
Min(a, b) == IF a <= b THEN a ELSE b

\* C7: wait() returns payloads in insertion order, each at most once: the
\* returned ordinals strictly increase, what is still buffered is newer
\* than everything returned, and each returned payload is the one that
\* signal() was given.
C7_FifoNoDuplicates ==
    /\ Increasing(Ordinals(eqPopped) \o Ordinals(eqQueue))
    /\ \A i \in 1..Len(eqPopped) :
         /\ eqPopped[i][1] \in 1..eqSent
         /\ eqPopped[i][2] = eqLog[eqPopped[i][1]]

\* Signals and waits interleaved, and three payloads came back.
C7_Witness ==
    Len(eqPopped) >= 3 /\ ~eqBurst /\ eqPopped[1][2] # eqPopped[2][2]

\* C8 as stated: after N signal(payload) calls with no wait() in between,
\* the j-th wait() returns payload_j (j <= min(N, K)), and the dropped-count
\* is N - K when N > K.
C8_AsStated ==
    eqBurst =>
        /\ Len(eqPopped) <= Min(eqSent, QueueCapacity)
        /\ \A j \in 1..Len(eqPopped) : eqPopped[j][1] = j
        /\ eqDropped = Max(eqSent - QueueCapacity, 0)

\* C8, amended: after N signal(payload) calls with no wait() in between,
\* the dropped-count is max(N - K, 0) and at most min(N, K) wait() calls
\* resolve; under drop-newest the j-th returns payload_j, under drop-oldest
\* it returns payload_(max(N - K, 0) + j).
C8_BurstThenDrain ==
    eqBurst =>
        /\ Len(eqPopped) + Len(eqQueue) = Min(eqSent, QueueCapacity)
        /\ eqDropped = Max(eqSent - QueueCapacity, 0)
        /\ \A j \in 1..Len(eqPopped) :
             eqPopped[j][1] = IF eqPolicy = "drop_newest" THEN j
                              ELSE Max(eqSent - QueueCapacity, 0) + j

\* More signals than the capacity, then the buffer was drained.
C8_Witness ==
    /\ eqBurst
    /\ eqSent > QueueCapacity
    /\ Len(eqPopped) = QueueCapacity
    /\ eqDropped = eqSent - QueueCapacity

\* ======================================================================
\* Properties of the measurement protocol (under SpecApp)
\* ======================================================================

\* The samples that are numbers or infinite.
Ordered(S) == {x \in S : x.k # "nan"}

\* The largest element of a non-empty set of ordered f32 values.
MaxOf(S) == CHOOSE x \in S : \A y \in S : FLe(y, x)

\* The maximum of a set of samples: of its ordered values, NaN when it
\* holds nothing else.
MaxSample(S) == IF Ordered(S) = {} THEN NaN ELSE MaxOf(Ordered(S))

C10_TerminatesAtThreshold ==
    /\ (halted <=> consPc = "terminated")
    /\ (halted => activation_count = WCET_THRESHOLD /\ terminations = 1)
    /\ (~halted => terminations = 0)
    /\ (activation_count < WCET_THRESHOLD => ~halted)
    /\ (activation_count >= WCET_THRESHOLD =>
          consPc \in {"check", "terminated"} /\ activation_count = WCET_THRESHOLD)

\* The session of some target has terminated on its last sample.
C10_Witness ==
    halted /\ terminations = 1 /\ activation_count = WCET_THRESHOLD

\* C11: the activation counter never exceeds WCET_THRESHOLD, it has counted
\* exactly the trials completed so far (one per captured sample), and a
\* step changes it only by adding 1, at the count statement that follows
\* the capture, conversion and accumulation of the trial's sample.
C11_CounterStepsByOne ==
    /\ [](activation_count <= WCET_THRESHOLD)
    /\ [](consPc \in {"check", "terminated"} => activation_count >= 1)
    /\ [](activation_count >= 1 => samples # {})
    /\ [][activation_count' # activation_count =>
            /\ activation_count' = activation_count + 1
            /\ consPc = "count" /\ consPc' = "check"
            /\ time_ns \in samples
            /\ time_ns = Sample(target, cycles, hclk_mhz)]_vars
    /\ [][consPc = "count" /\ consPc' # "count" =>
            activation_count' = activation_count + 1]_vars

\* A second trial has just been counted.
C11_Witness ==
    consPc = "check" /\ activation_count = 2

\* C13: Terminated is final. A session that entered the panic handler is
\* halted, and from then on no task or handler moves and neither the
\* activation counter, the worst-case accumulator, the storage of the
\* primitives, the watchdog slot nor the pending interrupt changes.
C13_TerminatedIsFinal ==
    /\ [](consPc = "terminated" => halted)
    /\ [][consPc = "terminated" =>
            UNCHANGED <<prodPc, consPc, sigPc, csDepth, halted,
                        activation_count, wc, samples, cycles, time_ns,
                        signalStore, TASK_SEMAPHORE, eqQueue, eqDropped,
                        watchdog, isrPending, next_time,
                        terminations>>]_vars

\* The semaphore session has terminated while the signaler's delay is
\* armed and a watchdog stamp is in place.
C13_Witness ==
    /\ consPc = "terminated"
    /\ target = "sem"
    /\ prodPc = "sleep"
    /\ watchdog.full

\* ======================================================================
\* Properties of the start of a trial (under SpecApp)
\* ======================================================================

\* s is an initial part of t.
IsPrefix(s, t) ==
    /\ Len(s) <= Len(t)
    /\ \A i \in 1..Len(s) : s[i] = t[i]

\* C14 as stated: in every pass of every producer the start event comes
\* after the reset of the cycle counter.
C14_AsStated ==
    \A i \in 1..Len(trialLog) :
        trialLog[i] = "start" => \E j \in 1..(i - 1) : trialLog[j] = "reset"

\* C14, amended: every pass performs one start event and one reset, next to
\* each other. The delay-until task resets and then arms its wakeup; the
\* other producers perform the start event first and reset right after it,
\* both inside the one critical section, which the consumer cannot enter.
C14_ResetNextToStart ==
    /\ (target = "delay" => IsPrefix(trialLog, <<"reset", "start">>))
    /\ (target # "delay" => IsPrefix(trialLog, <<"start", "reset">>))
    /\ (target = "delay" /\ trialLog = <<"reset">> => prodPc = "arm")
    /\ (target # "delay" /\ trialLog = <<"start">> =>
          csDepth >= 1 /\ prodPc \in {"cs", "reset"})
    /\ (prodPc = "sleep" => Len(trialLog) = 2)

\* A producer has performed its start event and then reset the counter,
\* which held a count of the trial before.
C14_Witness ==
    /\ trialLog = <<"start", "reset">>
    /\ prodPc = "exit"
    /\ cyccnt = 0
    /\ cycles >= 1
    /\ activation_count >= 1

\* The step is a reset of the cycle counter that starts a measured interval.
ResetStep ==
    /\ trialLog' # trialLog
    /\ trialLog' # <<>>
    /\ trialLog'[Len(trialLog')] = "reset"

\* C15: every reset of the cycle counter that starts a measured interval is
\* performed inside a critical section, in every target.
C15_ResetInsideCriticalSection ==
    [][ResetStep => cyccnt' = 0 /\ csDepth >= 1 /\ csDepth' >= 1]_vars

\* The step is the consumer's capture of the cycle counter.
CaptureStep == consPc = "capture" /\ consPc' = "convert"

\* C16: where start event and reset share one critical section, the
\* consumer moves only outside it and after both were performed, and its
\* capture reads the counter as the reset that followed the latest start
\* event left it to count: never in the window between the two.
C16_CaptureAfterReset ==
    /\ [][target # "delay" /\ CaptureStep =>
            /\ trialLog = <<"start", "reset">>
            /\ csDepth = 0
            /\ prodPc \in {"sleep", "start"}
            /\ cycles' = cyccnt]_vars
    /\ [][target # "delay" /\ consPc' # consPc =>
            csDepth = 0 /\ Len(trialLog) = 2]_vars
    /\ [](target # "delay" /\ trialLog = <<"start">> => csDepth >= 1)

\* The waiter was pre-empted just before its capture, and the signaler is
\* now between the start event of its next pass and the reset.
C16_Witness ==
    /\ target = "sem"
    /\ consPc = "capture"
    /\ trialLog = <<"start">>
    /\ prodPc = "reset"
    /\ csDepth = 1

\* ======================================================================
\* Critical sections and suspension points (under SpecApp)
\* ======================================================================

\* C17: no task reaches a suspension point inside a critical section. The
\* producer is the only task that enters one; it arrives at its delay, and
\* sleeps in it, with nesting depth zero and signal() returned, also after
\* the nested section of signal(). The consumer returns to wait() with no
\* section held, and never changes the depth itself.
C17_NoSuspensionInCriticalSection ==
    /\ [](csDepth \in 0..2)
    /\ [](prodPc \in {"arm", "sleep", "resumed"} =>
            csDepth = 0 /\ sigPc = "idle")
    /\ [](csDepth = 2 => target = "sem" /\ prodPc = "cs" /\ sigPc # "idle")
    /\ [][prodPc' = "sleep" /\ prodPc # "sleep" =>
            prodPc = "arm" /\ csDepth = 0 /\ csDepth' = 0]_vars
    /\ [][consPc' = "wait" /\ consPc # "wait" => csDepth = 0]_vars
    /\ [][csDepth' # csDepth =>
            consPc' = consPc /\ prodPc \in {"start", "enter", "cs", "exit"}]_vars

\* The semaphore's signaler sleeps in its delay after a pass through both
\* critical sections, while the waiter is suspended in wait().
C17_Witness ==
    /\ target = "sem"
    /\ prodPc = "sleep"
    /\ consPc = "wait"
    /\ csDepth = 0
    /\ watchdog.full
    /\ activation_count >= 1

\* ======================================================================
\* Properties of the conversion of a captured count (under SpecApp)
\* ======================================================================

\* C18: in every target the consumer's clock frequency is the core clock
\* configured by init(), 168 MHz and not zero, and a converted sample is
\* the finite number cycles / 168 * 1000 (less the interval in the
\* delay-until target).
C18_ConvertsWithCoreClock ==
    /\ hclk_mhz = HCLK_MHZ
    /\ hclk_mhz # 0
    /\ (consPc \in {"accumulate", "count", "check", "terminated"} =>
          /\ time_ns.k = "num"
          /\ time_ns = Sample(target, cycles, HCLK_MHZ))

\* The wake-up did not come early: the elapsed time of c cycles is at least
\* the nominal interval.
NotEarly(c) == c * 1000 >= DELAY_INTERVAL * HCLK_MHZ

C12_EventuallyTerminated ==
    /\ <>(halted /\ consPc = "terminated" /\ activation_count = WCET_THRESHOLD)
    /\ [](~halted => ENABLED AppNext)

\* A session is one sample short of the threshold, its producer asleep
\* and its consumer about to count the last trial.
C12_Witness ==
    /\ ~halted
    /\ activation_count = WCET_THRESHOLD - 1
    /\ consPc = "count"
    /\ prodPc = "sleep"

\* C20: in the semaphore target a signal() that filled the store while the
\* waiter is suspended in wait() and the session is not terminated leads
\* to the wait() resolved and the cycle counter captured; the stored
\* notification is not lost: only the waiter's resolving wait() empties
\* the store.
C20_HandOffLiveness ==
    /\ (/\ target = "sem"
        /\ ~halted
        /\ consPc = "wait"
        /\ TASK_SEMAPHORE.store = 1)
         ~> (target = "sem" /\ consPc = "convert")
    /\ [][(/\ target = "sem"
           /\ TASK_SEMAPHORE.store = 1
           /\ TASK_SEMAPHORE'.store # TASK_SEMAPHORE.store)
            => consPc = "wait" /\ consPc' = "capture"]_vars

\* The signaler has signalled and sleeps in its delay while the waiter,
\* back from an earlier trial, is suspended in wait().
C20_Witness ==
    /\ target = "sem"
    /\ ~halted
    /\ consPc = "wait"
    /\ prodPc = "sleep"
    /\ TASK_SEMAPHORE.store = 1
    /\ activation_count >= 1
    /\ activation_count < WCET_THRESHOLD

====
